---- MODULE Spec2Model ----
(***************************************************************************)
(* simplecalc: text -> tokenize -> parse -> postfix_repr -> eval loop.     *)
(*                                                                         *)
(* A text is a sequence of characters; a character is a one-element name   *)
(* ("1", "+", "NBSP", ...).  Byte offsets are kept apart from character    *)
(* indices because tokenize mixes the two (chars().enumerate() gives       *)
(* character indices, &input[a..b] takes byte offsets).                    *)
(*                                                                         *)
(* An f64 is modelled as an exact rational <<n, d>> (d > 0, lowest terms)  *)
(* together with the IEEE specials: +0 = <<0,1>>, -0 = <<0,-1>>,           *)
(* +inf = <<1,0>>, -inf = <<-1,0>>, NaN = <<0,0>>.  A result that is not   *)
(* a rational within ExactMax is kept as the term <<op, a, b>> of the      *)
(* operation that produced it; binary rounding is not modelled.            *)
(***************************************************************************)
EXTENDS Integers, Sequences, FiniteSets, TLC

\* ------------------------------------------------------------------ bounds
MaxTextLen == 4
MaxLexLen == 5
MaxCalcLen == 7
MaxOpLen == 4
MaxInfixLen == 5
ExactMax == 10000

\* -------------------------------------------------------------- characters
Digits == {"0", "1", "2", "3", "4", "5", "6", "7", "8", "9"}

DigitVal(c) ==
  CASE c = "0" -> 0 [] c = "1" -> 1 [] c = "2" -> 2 [] c = "3" -> 3
    [] c = "4" -> 4 [] c = "5" -> 5 [] c = "6" -> 6 [] c = "7" -> 7
    [] c = "8" -> 8 [] c = "9" -> 9

\* char::is_whitespace: ASCII blanks and the Unicode White_Space characters
\* (NBSP is U+00A0, EMSP is U+2003).
is_whitespace(c) == c \in {" ", "\t", "\n", "\r", "NBSP", "EMSP"}

\* char::len_utf8
len_utf8(c) ==
  CASE c = "NBSP" -> 2
    [] c = "EMSP" -> 3
    [] OTHER -> 1

RECURSIVE ByteLen(_)
\* str::len: the length of a text in bytes.
ByteLen(text) ==
  IF text = <<>> THEN 0 ELSE len_utf8(Head(text)) + ByteLen(Tail(text))

\* Byte offset at which the k-th character (0-based) starts.
ByteOffset(text, k) == ByteLen(SubSeq(text, 1, k))

is_char_boundary(text, off) ==
  \E k \in 0..Len(text) : ByteOffset(text, k) = off

CharIndexOf(text, off) ==
  CHOOSE k \in 0..Len(text) : ByteOffset(text, k) = off

\* &input[start..end] with byte offsets: panics when start > end, end is past
\* the text, or either offset is not a character boundary.
StrSlice(input, start, end) ==
  IF /\ start <= end
     /\ end <= ByteLen(input)
     /\ is_char_boundary(input, start)
     /\ is_char_boundary(input, end)
  THEN <<"Ok", SubSeq(input, CharIndexOf(input, start) + 1, CharIndexOf(input, end))>>
  ELSE <<"Panic">>

\* --------------------------------------------------------------- tokenizer
\* TokenizerState: <<"Initial">>, <<"ParseNumber">>, <<"ParseOperator">>,
\* <<"ParseWhitespace">>, <<"ParOpen", pos>>, <<"ParClose", pos>>.
\* NextTokenizerState whose paren states do not record the position.
NextTokenizerStateNoPos(ch, pos) ==
  CASE ch \in Digits \/ ch = "." -> <<"ParseNumber">>
    [] is_whitespace(ch) -> <<"ParseWhitespace">>
    [] ch \in {"+", "-", "*", "/"} -> <<"ParseOperator">>
    [] ch = "(" -> <<"ParOpen", 0>>
    [] ch = ")" -> <<"ParClose", 0>>
    [] OTHER -> <<"Invalid">>

NextTokenizerState(ch, pos) ==
  CASE ch \in Digits \/ ch = "." -> <<"ParseNumber">>
    [] is_whitespace(ch) -> <<"ParseWhitespace">>
    [] ch \in {"+", "-", "*", "/"} -> <<"ParseOperator">>
    [] ch = "(" -> <<"ParOpen", pos>>
    [] ch = ")" -> <<"ParClose", pos>>
    [] OTHER -> <<"Invalid">>

\* yield_token: <<"None">>, <<"Some", token>> or <<"Panic">> (a slice panic).
yield_token(current_state, input, start, end) ==
  LET s == StrSlice(input, start, end)
      kind == current_state[1]
  IN CASE kind = "Initial" -> <<"None">>
       [] kind = "ParseNumber" ->
            IF s[1] = "Panic" THEN <<"Panic">> ELSE <<"Some", <<"Number", s[2]>>>>
       [] kind = "ParseOperator" ->
            IF s[1] = "Panic" THEN <<"Panic">> ELSE <<"Some", <<"Operator", s[2]>>>>
       [] kind = "ParseWhitespace" ->
            IF s[1] = "Panic" THEN <<"Panic">> ELSE <<"Some", <<"Whitespace", s[2]>>>>
       [] kind = "ParOpen" -> <<"Some", <<"ParOpen">>>>
       [] kind = "ParClose" -> <<"Some", <<"ParClose">>>>

PushYield(tokens, y) == IF y[1] = "Some" THEN Append(tokens, y[2]) ELSE tokens

RECURSIVE TokenizeFrom(_, _, _, _, _)
\* The body of tokenize's for loop from character index pos on, then the
\* final yield and the End token.
TokenizeFrom(input, pos, state, token_start, tokens) ==
  IF pos >= Len(input)
  THEN LET y == yield_token(state, input, token_start, ByteLen(input))
       IN IF y[1] = "Panic" THEN <<"Panic">>
          ELSE <<"Ok", Append(PushYield(tokens, y), <<"End">>)>>
  ELSE LET ch == input[pos + 1]
           next_state == NextTokenizerState(ch, pos)
       IN IF next_state = <<"Invalid">>
          THEN <<"Err", <<"TokenizerError", pos, input[pos + 1]>>>>
          ELSE IF next_state # state
          THEN LET y == yield_token(state, input, token_start, pos)
               IN IF y[1] = "Panic" THEN <<"Panic">>
                  ELSE TokenizeFrom(input, pos + 1, next_state, pos, PushYield(tokens, y))
          ELSE TokenizeFrom(input, pos + 1, state, token_start, tokens)

\* tokenize without the final tokens.push(Token::End).
tokenizeNoEnd(input) ==
  LET r == TokenizeFrom(input, 0, <<"Initial">>, 0, <<>>)
  IN IF r[1] = "Ok" THEN <<"Ok", SubSeq(r[2], 1, Len(r[2]) - 1)>> ELSE r

\* tokenize: <<"Ok", tokens>>, <<"Err", error>> or <<"Panic">>.
tokenize(input) == TokenizeFrom(input, 0, <<"Initial">>, 0, <<>>)

\* ------------------------------------------------------------------- f64
PosZero == <<0, 1>>
NegZero == <<0, -1>>
PosInf == <<1, 0>>
NegInf == <<-1, 0>>
NaN == <<0, 0>>
One == <<1, 1>>

Abs(x) == IF x < 0 THEN -x ELSE x

RECURSIVE GCD(_, _)
GCD(a, b) == IF b = 0 THEN a ELSE GCD(b, a % b)

IsTerm(v) == Len(v) = 3
IsNaN(v) == v = NaN
IsInf(v) == v[2] = 0 /\ v[1] # 0
IsZero(v) == v[1] = 0 /\ v[2] # 0
Sgn(v) == IF v[1] > 0 THEN 1 ELSE IF v[1] < 0 THEN -1 ELSE IF v[2] < 0 THEN -1 ELSE 1
SignedZero(s) == IF s < 0 THEN NegZero ELSE PosZero
SignedInf(s) == IF s < 0 THEN NegInf ELSE PosInf
IsInteger(v) == v[2] = 1
IsOdd(v) == v[2] = 1 /\ v[1] % 2 = 1

\* The rational n/d (n # 0, d > 0) in lowest terms, or the term <<op, a, b>>
\* when it is outside the exactly modelled range.
Rational(op, a, b, n, d) ==
  LET g == GCD(Abs(n), d)
  IN IF Abs(n) \div g > ExactMax \/ d \div g > ExactMax
     THEN <<op, a, b>>
     ELSE <<n \div g, d \div g>>

\* -v (exact for every f64).
Negate(v) ==
  IF IsTerm(v) THEN (IF v[1] = "Neg" THEN v[2] ELSE <<"Neg", v, v>>)
  ELSE IF IsZero(v) THEN <<0, -v[2]>>
  ELSE <<-v[1], v[2]>>

\* a + b
FAdd(a, b) ==
  IF IsTerm(a) \/ IsTerm(b) THEN <<"Add", a, b>>
  ELSE IF IsNaN(a) \/ IsNaN(b) THEN NaN
  ELSE IF IsInf(a) /\ IsInf(b) THEN (IF a = b THEN a ELSE NaN)
  ELSE IF IsInf(a) THEN a
  ELSE IF IsInf(b) THEN b
  ELSE IF IsZero(a) /\ IsZero(b) THEN (IF a = NegZero /\ b = NegZero THEN NegZero ELSE PosZero)
  ELSE IF IsZero(a) THEN b
  ELSE IF IsZero(b) THEN a
  ELSE LET n == a[1] * b[2] + b[1] * a[2]
       IN IF n = 0 THEN PosZero ELSE Rational("Add", a, b, n, a[2] * b[2])

\* a - b
FSub(a, b) ==
  IF IsTerm(a) \/ IsTerm(b) THEN <<"Sub", a, b>> ELSE FAdd(a, Negate(b))

\* a * b
FMul(a, b) ==
  IF b = One THEN a
  ELSE IF a = One THEN b
  ELSE IF b = <<-1, 1>> THEN Negate(a)
  ELSE IF a = <<-1, 1>> THEN Negate(b)
  ELSE IF IsTerm(a) \/ IsTerm(b) THEN <<"Mul", a, b>>
  ELSE IF IsNaN(a) \/ IsNaN(b) THEN NaN
  ELSE IF (IsInf(a) /\ IsZero(b)) \/ (IsZero(a) /\ IsInf(b)) THEN NaN
  ELSE IF IsInf(a) \/ IsInf(b) THEN SignedInf(Sgn(a) * Sgn(b))
  ELSE IF IsZero(a) \/ IsZero(b) THEN SignedZero(Sgn(a) * Sgn(b))
  ELSE Rational("Mul", a, b, a[1] * b[1], a[2] * b[2])

\* a / b
FDiv(a, b) ==
  IF IsTerm(a) \/ IsTerm(b) THEN <<"Div", a, b>>
  ELSE IF IsNaN(a) \/ IsNaN(b) THEN NaN
  ELSE IF (IsInf(a) /\ IsInf(b)) \/ (IsZero(a) /\ IsZero(b)) THEN NaN
  ELSE IF IsInf(a) \/ IsZero(b) THEN SignedInf(Sgn(a) * Sgn(b))
  ELSE IF IsInf(b) \/ IsZero(a) THEN SignedZero(Sgn(a) * Sgn(b))
  ELSE Rational("Div", a, b, Sgn(b) * a[1] * b[2], a[2] * Abs(b[1]))

RECURSIVE PowNat(_, _, _)
\* x^e for naturals x >= 2, accumulated in acc; 0 once it exceeds ExactMax.
PowNat(x, e, acc) ==
  IF e = 0 THEN acc
  ELSE IF acc * x > ExactMax THEN 0
  ELSE PowNat(x, e - 1, acc * x)

NatPower(x, e) == IF x = 1 THEN 1 ELSE PowNat(x, e, 1)

\* a.powf(b), the IEEE pow.
FPow(a, b) ==
  IF IsTerm(a) \/ IsTerm(b) THEN <<"Pow", a, b>>
  ELSE IF IsZero(b) \/ a = One THEN One
  ELSE IF IsNaN(a) \/ IsNaN(b) THEN NaN
  ELSE IF IsInf(b) THEN
    (IF a = <<-1, 1>> THEN One
     ELSE IF (~IsInf(a)) /\ Abs(a[1]) < Abs(a[2])
          THEN (IF b = PosInf THEN PosZero ELSE PosInf)
          ELSE (IF b = PosInf THEN PosInf ELSE PosZero))
  ELSE IF IsZero(a) THEN
    (IF b[1] < 0
     THEN (IF IsOdd(b) THEN SignedInf(Sgn(a)) ELSE PosInf)
     ELSE (IF IsOdd(b) THEN a ELSE PosZero))
  ELSE IF IsInf(a) THEN
    (IF b[1] < 0
     THEN (IF a = NegInf /\ IsOdd(b) THEN NegZero ELSE PosZero)
     ELSE (IF a = NegInf /\ IsOdd(b) THEN NegInf ELSE PosInf))
  ELSE IF ~IsInteger(b) THEN (IF a[1] < 0 THEN NaN ELSE <<"Pow", a, b>>)
  ELSE LET e == Abs(b[1])
           pn == NatPower(Abs(a[1]), e)
           pd == NatPower(a[2], e)
           s == IF a[1] < 0 /\ IsOdd(b) THEN -1 ELSE 1
       IN IF pn = 0 \/ pd = 0 THEN <<"Pow", a, b>>
          ELSE IF b[1] < 0 THEN <<s * pd, pn>> ELSE <<s * pn, pd>>

\* ------------------------------------------------------------ str::parse
CountOf(text, c) == Cardinality({i \in 1..Len(text) : text[i] = c})

RECURSIVE DigitsValue(_, _)
\* The natural number written by the digits of text (anything else skipped).
DigitsValue(text, acc) ==
  IF text = <<>> THEN acc
  ELSE IF Head(text) \in Digits
       THEN DigitsValue(Tail(text), acc * 10 + DigitVal(Head(text)))
       ELSE DigitsValue(Tail(text), acc)

RECURSIVE TenPower(_)
TenPower(k) == IF k = 0 THEN 1 ELSE 10 * TenPower(k - 1)

FractionDigits(text) ==
  IF CountOf(text, ".") = 0 THEN 0
  ELSE Len(text) - (CHOOSE i \in 1..Len(text) : text[i] = ".")

\* <f64 as FromStr>::from_str on a text without letters: an optional sign,
\* then digits with at most one '.', at least one digit.  No trimming.
ParseFloat(text) ==
  LET signed == text # <<>> /\ Head(text) \in {"+", "-"}
      body == IF signed THEN Tail(text) ELSE text
      n == DigitsValue(body, 0)
      mag == IF n = 0 THEN PosZero
             ELSE Rational("Lit", body, body, n, TenPower(FractionDigits(body)))
  IN IF /\ \A i \in 1..Len(body) : body[i] \in Digits \/ body[i] = "."
        /\ CountOf(body, ".") <= 1
        /\ \E i \in 1..Len(body) : body[i] \in Digits
     THEN <<"Ok", IF signed /\ Head(text) = "-" THEN Negate(mag) ELSE mag>>
     ELSE <<"Err", <<"ParseNumberError">>>>

\* ------------------------------------------------------------------- lexer
\* Lexem: <<"Number", v>>, <<"Operator", op>>, <<"ParOpen">>, <<"ParClose">>
\* with op one of "Add", "Sub", "Mul", "Div", "Pow".
\* priority with Mul ranked like Add and Sub.
priorityMulLow(op) ==
  CASE op = "Add" -> 0
    [] op = "Sub" -> 0
    [] op = "Mul" -> 0
    [] op = "Div" -> 1
    [] op = "Pow" -> 2

priority(op) ==
  CASE op = "Add" -> 0
    [] op = "Sub" -> 0
    [] op = "Mul" -> 1
    [] op = "Div" -> 1
    [] op = "Pow" -> 2

IsSignToken(token) ==
  token[1] = "Operator" /\ (token[2] = <<"+">> \/ token[2] = <<"-">>)

\* SignOf that never sees the minus.
SignOfAlwaysPlus(token) == One

SignOf(token) == IF token[2] = <<"-">> THEN <<-1, 1>> ELSE One

\* OperatorOf reading only the first character of the run.
OperatorOfFirstChar(op) ==
  CASE Head(op) = "+" -> "Add"
    [] Head(op) = "-" -> "Sub"
    [] Head(op) = "*" -> "Mul"
    [] Head(op) = "/" -> "Div"
    [] OTHER -> "None"

\* The operator a pending operator run names, or "None".
OperatorOf(op) ==
  CASE op = <<"+">> -> "Add"
    [] op = <<"-">> -> "Sub"
    [] op = <<"*">> -> "Mul"
    [] op = <<"/">> -> "Div"
    [] op = <<"*", "*">> -> "Pow"
    [] OTHER -> "None"

\* SignBeforePar pushing the sign without the multiplication.
SignBeforeParNoMul(sign) == << <<"Number", sign>> >>

\* SignBeforePar pushing the multiplication without its left operand.
SignBeforeParNoNumber(sign) == << <<"Operator", "Mul">> >>

\* The lexems pushed when '(' arrives in LeadingSign(sign).
SignBeforePar(sign) == << <<"Number", sign>>, <<"Operator", "Mul">> >>

\* One iteration of parse's for loop: the token at index pos met in `state`.
\* Gives <<"Next", state, lexems, pars>> or <<"Err", error>>.
\* LexerState: <<"Initial">>, <<"LeadingSign", sign>>, <<"Number", val, sign>>,
\* <<"Operator", op>>, <<"ParOpen">>, <<"ParClose">>, <<"End">>.
LexerStep(state, lexems, pars, token, pos) ==
  LET kind == state[1]
      tk == token[1]
      LexerError == <<"Err", <<"LexerError", pos>>>>
  IN CASE kind = "Initial" ->
            (CASE tk = "Whitespace" -> <<"Next", <<"Initial">>, lexems, pars>>
               [] tk = "Number" -> <<"Next", <<"Number", token[2], One>>, lexems, pars>>
               [] IsSignToken(token) -> <<"Next", <<"LeadingSign", SignOf(token)>>, lexems, pars>>
               [] tk = "ParOpen" -> <<"Next", <<"ParOpen">>, lexems, pars>>
               [] OTHER -> LexerError)
       [] kind = "LeadingSign" ->
            (CASE tk = "Number" -> <<"Next", <<"Number", token[2], state[2]>>, lexems, pars>>
               [] tk = "ParOpen" ->
                    <<"Next", <<"ParOpen">>, lexems \o SignBeforePar(state[2]), pars>>
               [] OTHER -> LexerError)
       [] kind = "Number" ->
            LET num == ParseFloat(state[2])
                pushed == Append(lexems, <<"Number", FMul(num[2], state[3])>>)
            IN IF num[1] = "Err" THEN <<"Err", num[2]>>
               ELSE CASE tk = "Operator" -> <<"Next", <<"Operator", token[2]>>, pushed, pars>>
                      [] tk = "ParClose" -> <<"Next", <<"ParClose">>, pushed, pars>>
                      [] tk = "End" -> <<"Next", <<"End">>, pushed, pars>>
                      [] OTHER -> LexerError
       [] kind = "Operator" ->
            LET op == OperatorOf(state[2])
                pushed == Append(lexems, <<"Operator", op>>)
            IN IF op = "None" THEN <<"Err", <<"ParseOperatorError", state[2]>>>>
               ELSE CASE tk = "Number" -> <<"Next", <<"Number", token[2], One>>, pushed, pars>>
                      [] tk = "ParOpen" -> <<"Next", <<"ParOpen">>, pushed, pars>>
                      [] OTHER -> LexerError
       [] kind = "ParOpen" ->
            LET pushed == Append(lexems, <<"ParOpen">>)
            IN IF tk = "Whitespace" THEN <<"Next", state, lexems, pars>>
               ELSE CASE IsSignToken(token) ->
                           <<"Next", <<"LeadingSign", SignOf(token)>>, pushed, pars + 1>>
                      [] tk = "Number" -> <<"Next", <<"Number", token[2], One>>, pushed, pars + 1>>
                      [] tk = "ParOpen" -> <<"Next", <<"ParOpen">>, pushed, pars + 1>>
                      [] OTHER -> LexerError
       [] kind = "ParClose" ->
            LET pushed == Append(lexems, <<"ParClose">>)
            IN IF tk = "Whitespace" THEN <<"Next", state, lexems, pars>>
               ELSE CASE tk = "Operator" -> <<"Next", <<"Operator", token[2]>>, pushed, pars - 1>>
                      [] tk = "ParClose" -> <<"Next", <<"ParClose">>, pushed, pars - 1>>
                      [] tk = "End" -> <<"Next", <<"End">>, pushed, pars - 1>>
                      [] OTHER -> LexerError
       [] kind = "End" -> LexerError

RECURSIVE ParseFrom(_, _, _, _, _)
\* parse's for loop from token index pos on, then the final check.
ParseFrom(tokens, pos, state, lexems, pars) ==
  IF pos >= Len(tokens)
  THEN IF state # <<"End">> \/ pars # 0
       THEN <<"Err", <<"LexerError", Len(tokens)>>>>
       ELSE <<"Ok", lexems>>
  ELSE LET r == LexerStep(state, lexems, pars, tokens[pos + 1], pos)
       IN IF r[1] = "Err" THEN r
          ELSE ParseFrom(tokens, pos + 1, r[2], r[3], r[4])

\* parse: <<"Ok", lexems>> or <<"Err", error>>.
parse(tokens) == ParseFrom(tokens, 0, <<"Initial">>, <<>>, 0)

\* ----------------------------------------------------------------- postfix
Last(seq) == seq[Len(seq)]
Front(seq) == SubSeq(seq, 1, Len(seq) - 1)

RECURSIVE PopOperatorsStrict(_, _, _)
\* PopOperators popping only strictly stronger operators.
PopOperatorsStrict(postfix, stack, op) ==
  IF stack # <<>> /\ Last(stack)[1] = "Operator" /\ priority(Last(stack)[2]) > priority(op)
  THEN PopOperatorsStrict(Append(postfix, Last(stack)), Front(stack), op)
  ELSE <<postfix, stack>>

\* PopOperators with an `if` for the `while`: at most one operator is popped.
PopOperatorsOnce(postfix, stack, op) ==
  IF stack # <<>> /\ Last(stack)[1] = "Operator" /\ priority(Last(stack)[2]) >= priority(op)
  THEN <<Append(postfix, Last(stack)), Front(stack)>>
  ELSE <<postfix, stack>>

RECURSIVE PopOperators(_, _, _)
\* The while loop of the Operator arm: pops to the output while the top of
\* the stack is an operator whose priority is >= op's.  Gives <<postfix, stack>>.
PopOperators(postfix, stack, op) ==
  IF stack # <<>> /\ Last(stack)[1] = "Operator" /\ priority(Last(stack)[2]) >= priority(op)
  THEN PopOperators(Append(postfix, Last(stack)), Front(stack), op)
  ELSE <<postfix, stack>>

RECURSIVE PopToParOpenKept(_, _)
\* PopToParOpen sending the ParOpen it finds to the output.
PopToParOpenKept(postfix, stack) ==
  IF stack = <<>> THEN <<postfix, stack>>
  ELSE IF Last(stack) = <<"ParOpen">> THEN <<Append(postfix, Last(stack)), Front(stack)>>
  ELSE PopToParOpenKept(Append(postfix, Last(stack)), Front(stack))

RECURSIVE PopToParOpen(_, _)
\* The while loop of the ParClose arm: pops to the output until a ParOpen is
\* popped (and dropped) or the stack is empty.
PopToParOpen(postfix, stack) ==
  IF stack = <<>> THEN <<postfix, stack>>
  ELSE IF Last(stack) = <<"ParOpen">> THEN <<postfix, Front(stack)>>
  ELSE PopToParOpen(Append(postfix, Last(stack)), Front(stack))

\* PopAll leaving the stack behind.
PopAllSkipped(postfix, stack) == postfix

RECURSIVE PopAll(_, _)
\* The final while loop: everything left on the stack goes to the output.
PopAll(postfix, stack) ==
  IF stack = <<>> THEN postfix
  ELSE PopAll(Append(postfix, Last(stack)), Front(stack))

\* One iteration of postfix_repr's for loop.  Gives <<postfix, stack>>.
PostfixStep(postfix, stack, lexem) ==
  CASE lexem[1] = "Number" -> <<Append(postfix, lexem), stack>>
    [] lexem[1] = "Operator" ->
         LET r == PopOperators(postfix, stack, lexem[2])
         IN <<r[1], Append(r[2], lexem)>>
    [] lexem[1] = "ParOpen" -> <<postfix, Append(stack, lexem)>>
    [] lexem[1] = "ParClose" -> PopToParOpen(postfix, stack)

RECURSIVE PostfixFrom(_, _, _, _)
PostfixFrom(infix, i, postfix, stack) ==
  IF i > Len(infix) THEN PopAll(postfix, stack)
  ELSE LET r == PostfixStep(postfix, stack, infix[i])
       IN PostfixFrom(infix, i + 1, r[1], r[2])

postfix_repr(infix) == PostfixFrom(infix, 1, <<>>, <<>>)

\* --------------------------------------------------------------- evaluator
Apply(op, a, b) ==
  CASE op = "Add" -> FAdd(a, b)
    [] op = "Sub" -> FSub(a, b)
    [] op = "Mul" -> FMul(a, b)
    [] op = "Div" -> FDiv(a, b)
    [] op = "Pow" -> FPow(a, b)

EvalError == <<"Err", <<"EvalError">>>>

\* One iteration of eval's for loop: <<"Next", stack>> or EvalError.
EvalStep(stack, lexem) ==
  CASE lexem[1] = "Number" -> <<"Next", Append(stack, lexem[2])>>
    [] lexem[1] = "Operator" ->
         IF Len(stack) < 2 THEN EvalError
         ELSE LET b == stack[Len(stack)]
                  a == stack[Len(stack) - 1]
              IN <<"Next", Append(SubSeq(stack, 1, Len(stack) - 2), Apply(lexem[2], a, b))>>
    [] lexem[1] = "ParOpen" -> EvalError
    [] lexem[1] = "ParClose" -> EvalError

RECURSIVE EvalFrom(_, _, _)
\* eval's for loop over the postfix sequence; gives <<"Done", stack>> or EvalError.
EvalFrom(postfix, i, stack) ==
  IF i > Len(postfix) THEN <<"Done", stack>>
  ELSE LET r == EvalStep(stack, postfix[i])
       IN IF r[1] = "Err" THEN r ELSE EvalFrom(postfix, i + 1, r[2])

\* The tail of eval: the loop, then the top of the stack.
EvalPostfix(postfix) ==
  LET r == EvalFrom(postfix, 1, <<>>)
  IN IF r[1] = "Err" THEN r
     ELSE IF r[2] = <<>> THEN EvalError
     ELSE <<"Ok", Last(r[2])>>

\* eval: <<"Ok", value>>, <<"Err", error>> or <<"Panic">>.
eval(expr) ==
  LET tokens == tokenize(expr)
      lexems == parse(tokens[2])
  IN IF tokens[1] # "Ok" THEN tokens
     ELSE IF lexems[1] # "Ok" THEN lexems
     ELSE EvalPostfix(postfix_repr(lexems[2]))

\* ------------------------------------------------------------ the program
VARIABLES
  line,     \* the text the caller holds: a line typed on stdin, or eval's argument
  pc,       \* "idle", "tokenize", "parse", "postfix_repr", "eval_loop",
            \* "returned", "panicked", "exit"
  input,    \* the text eval is running on
  tokens,   \* tokenize's token stream
  lexems,   \* parse's lexem stream
  postfix,  \* postfix_repr's output
  result    \* what eval gave: <<"Ok", v>>, <<"Err", e>>, <<"Panic">>; <<>> before

vars == <<line, pc, input, tokens, lexems, postfix, result>>

Texts(alphabet, n) == UNION {[1..k -> alphabet] : k \in 0..n}

\* Any short text: digits, '.', blanks (one of them multi-byte), an operator,
\* parentheses and an unrecognized character.
TextAlphabet == {"1", ".", " ", "NBSP", "+", "(", ")", "@"}

\* Any short blank-free text over the characters the lexer's grammar is made of.
LexAlphabet == {"1", "+", "-", "(", ")"}

\* Any short text over a digit, the four operator characters, parentheses and
\* a blank: every operator run of up to MaxOpLen - 1 characters after a number.
OpAlphabet == {"1", "+", "-", "*", "/", "(", ")", " "}

Atoms == {<<"2">>, <<"3">>}
OperatorTexts == {<<"+">>, <<"-">>, <<"*">>, <<"/">>, <<"*", "*">>}
Signed(e) == {e, <<"-">> \o e}

\* The texts of `texts` at most m characters long.
Fit(texts, m) == {t \in texts : Len(t) <= m}

Parenthesized(exprs) ==
  UNION {{<<"(">> \o t \o <<")">> : t \in Signed(e)} : e \in exprs}

\* The expressions with exactly Len(operands) binary operators that fit in
\* MaxCalcLen characters; operands[k + 1] are the operands with k operators.
NextLevel(operands) ==
  LET n == Len(operands)
  IN UNION {UNION {UNION {{l \o o \o r :
                             r \in Fit(operands[n - i], MaxCalcLen - Len(l) - Len(o))}
                          : o \in OperatorTexts}
                   : l \in operands[i + 1]}
            : i \in 0..(n - 1)}

RECURSIVE ExprLevels(_, _)
\* levels[k + 1]: the expressions with k operators; operands[k + 1]: the same
\* and, for k > 0, their parenthesized and optionally signed forms.  An
\* expression with n operators has at least 2n + 1 characters.
ExprLevels(levels, operands) ==
  IF 2 * Len(levels) + 1 > MaxCalcLen THEN levels
  ELSE LET level == NextLevel(operands)
       IN ExprLevels(Append(levels, level),
                     Append(operands, level \cup Fit(Parenthesized(level), MaxCalcLen)))

\* Every expression of at most MaxCalcLen characters, optionally signed.
CalcExprs ==
  LET levels == ExprLevels(<<Atoms>>, <<Atoms>>)
  IN UNION {UNION {Fit(Signed(e), MaxCalcLen) : e \in levels[k]} : k \in 1..Len(levels)}

Start(lines) ==
  /\ line \in lines
  /\ pc = "idle"
  /\ input = <<>>
  /\ tokens = <<>>
  /\ lexems = <<>>
  /\ postfix = <<>>
  /\ result = <<>>

Init == Start(Texts(TextAlphabet, MaxTextLen))
InitLex == Start(Texts(LexAlphabet, MaxLexLen))
InitCalc == Start(CalcExprs)
InitOp == Start(Texts(OpAlphabet, MaxOpLen))

\* Any short lexem sequence, as a caller of postfix_repr can build it: two
\* numbers, an operator of each priority, and the parentheses.
LexemAlphabet ==
  {<<"Number", <<2, 1>>>>, <<"Number", <<3, 1>>>>, <<"Operator", "Add">>,
   <<"Operator", "Mul">>, <<"Operator", "Pow">>, <<"ParOpen">>, <<"ParClose">>}

\* postfix_repr called on a lexem sequence directly.
InitInfix ==
  /\ line = <<>>
  /\ pc = "postfix_repr"
  /\ input = <<>>
  /\ tokens = <<>>
  /\ lexems \in Texts(LexemAlphabet, MaxInfixLen)
  /\ postfix = <<>>
  /\ result = <<>>

\* main's loop body up to the call of eval: read_line gives the line with its
\* terminator, or without one at end of input; one byte or less ends the loop.
ReadLine ==
  /\ pc = "idle"
  /\ \E term \in {<<"\n">>, <<>>} :
       LET read == line \o term
           bytes_read == ByteLen(read)
       IN IF bytes_read <= 1
          THEN pc' = "exit" /\ input' = input
          ELSE pc' = "tokenize" /\ input' = read
  /\ UNCHANGED <<line, tokens, lexems, postfix, result>>

\* A direct call of the library's eval(expr), as the tests make it.
CallEval ==
  /\ pc = "idle"
  /\ input' = line
  /\ pc' = "tokenize"
  /\ UNCHANGED <<line, tokens, lexems, postfix, result>>

\* let tokens = tokenize(expr)?;
Tokenize ==
  /\ pc = "tokenize"
  /\ LET r == tokenize(input)
     IN CASE r[1] = "Ok" -> tokens' = r[2] /\ result' = result /\ pc' = "parse"
          [] r[1] = "Err" -> tokens' = tokens /\ result' = r /\ pc' = "returned"
          [] r[1] = "Panic" -> tokens' = tokens /\ result' = r /\ pc' = "panicked"
  /\ UNCHANGED <<line, input, lexems, postfix>>

\* let lexems = parse(&tokens)?;
Parse ==
  /\ pc = "parse"
  /\ LET r == parse(tokens)
     IN IF r[1] = "Ok"
        THEN lexems' = r[2] /\ result' = result /\ pc' = "postfix_repr"
        ELSE lexems' = lexems /\ result' = r /\ pc' = "returned"
  /\ UNCHANGED <<line, input, tokens, postfix>>

\* let postfix = postfix_repr(&lexems);
PostfixRepr ==
  /\ pc = "postfix_repr"
  /\ postfix' = postfix_repr(lexems)
  /\ pc' = "eval_loop"
  /\ UNCHANGED <<line, input, tokens, lexems, result>>

\* The operand-stack loop of eval and its return.
EvalLoop ==
  /\ pc = "eval_loop"
  /\ result' = EvalPostfix(postfix)
  /\ pc' = "returned"
  /\ UNCHANGED <<line, input, tokens, lexems, postfix>>

Next == ReadLine \/ CallEval \/ Tokenize \/ Parse \/ PostfixRepr \/ EvalLoop

Spec == Init /\ [][Next]_vars
SpecLex == InitLex /\ [][Next]_vars
SpecCalc == InitCalc /\ [][Next]_vars
SpecOp == InitOp /\ [][Next]_vars

NextInfix == PostfixRepr
SpecInfix == InitInfix /\ [][NextInfix]_vars

\* ------------------------------------------------- vocabulary of the claims
NumberChars == Digits \cup {"."}
OperatorChars == {"+", "-", "*", "/"}

\* text with the run `ws` put after its first p characters.
Insert(text, p, ws) == SubSeq(text, 1, p) \o ws \o SubSeq(text, p + 1, Len(text))

\* The last character of text[1..p] that is neither an operator character
\* nor a blank, or "" when there is none.
OperandBefore(text, p) ==
  LET idx == {q \in 1..p : text[q] \notin OperatorChars /\ ~is_whitespace(text[q])}
  IN IF idx = {} THEN ""
     ELSE text[CHOOSE q \in idx : \A r \in idx : r <= q]

\* The places where the grammar allows a whitespace run: at the start, after a
\* number, after a binary operator, after an open or a close parenthesis.
WhitespaceLegalAfter(text, p) ==
  \/ p = 0
  \/ /\ p >= 1
     /\ \/ text[p] \in {"(", ")"}
        \/ /\ text[p] \in NumberChars
           /\ (p = Len(text) \/ text[p + 1] \notin NumberChars)
        \/ /\ text[p] \in OperatorChars
           /\ (p = Len(text) \/ text[p + 1] \notin OperatorChars)
           /\ OperandBefore(text, p) \in NumberChars \cup {")"}

RECURSIVE Depths(_, _, _)
\* Parenthesis depth never below zero along the lexems, and zero at the end.
Depths(lx, i, depth) ==
  IF depth < 0 THEN FALSE
  ELSE IF i > Len(lx) THEN depth = 0
  ELSE Depths(lx, i + 1,
              depth + (CASE lx[i] = <<"ParOpen">> -> 1
                         [] lx[i] = <<"ParClose">> -> -1
                         [] OTHER -> 0))

Balanced(lx) == Depths(lx, 1, 0)

\* eval has returned or panicked on `input`.
Finished == pc \in {"returned", "panicked"}

NotWhitespace(c) == ~is_whitespace(c)
Strip(text) == SelectSeq(text, NotWhitespace)

\* Where the blanks of text sit, counted in non-blank characters before them.
WhitespacePlaces(text) ==
  {Len(Strip(SubSeq(text, 1, i - 1))) : i \in {j \in 1..Len(text) : is_whitespace(text[j])}}

\* A well-formed expression: its blank-free text is accepted with every
\* ParClose matching an earlier ParOpen, and its blanks sit where the grammar
\* allows them.
WellFormed(text) ==
  LET base == Strip(text)
      t == tokenize(base)
      l == parse(t[2])
  IN /\ t[1] = "Ok"
     /\ l[1] = "Ok"
     /\ Balanced(l[2])
     /\ \A k \in WhitespacePlaces(text) : WhitespaceLegalAfter(base, k)

Recognized(c) ==
  c \in NumberChars \cup OperatorChars \cup {"(", ")", " ", "\t", "\n", "\r", "NBSP", "EMSP"}

\* Priority Pow > Mul/Div > Add/Sub, as the reference evaluator reads it.
RefPriority(op) == IF op = "Pow" THEN 3 ELSE IF op \in {"Mul", "Div"} THEN 2 ELSE 1

RECURSIVE RefExpr(_, _, _), RefClimb(_, _, _, _)
\* Reference recursive-descent evaluator over a well-formed lexem sequence:
\* <<value, index after the expression>>.  An operand is a number or a
\* parenthesized expression; operators at least as strong as `min` are folded
\* into the left operand from left to right, each right operand taking the
\* strictly stronger operators that follow it.
RefExpr(lx, i, min) ==
  IF lx[i][1] = "Number"
  THEN RefClimb(lx, lx[i][2], i + 1, min)
  ELSE LET inner == RefExpr(lx, i + 1, 1)
       IN RefClimb(lx, inner[1], inner[2] + 1, min)

RefClimb(lx, lhs, j, min) ==
  IF j <= Len(lx) /\ lx[j][1] = "Operator" /\ RefPriority(lx[j][2]) >= min
  THEN LET rhs == RefExpr(lx, j + 1, RefPriority(lx[j][2]) + 1)
       IN RefClimb(lx, Apply(lx[j][2], lhs, rhs[1]), rhs[2], min)
  ELSE <<lhs, j>>

RefValue(lx) == RefExpr(lx, 1, 1)[1]

\* Same Ok value, or a failure of the same kind.
SameOutcome(r1, r2) ==
  \/ r1[1] = "Ok" /\ r2 = r1
  \/ r1[1] = "Err" /\ r2[1] = "Err" /\ r1[2][1] = r2[2][1]
  \/ r1[1] = "Panic" /\ r2[1] = "Panic"

\* ------------------------------------------------------------------ claims

\* C1: for every input text, multi-byte characters included, eval returns
\* Ok or Err and never panics: tokenize never slices the input at an offset
\* that is outside it or not a character boundary.
C1_NeverPanics == result # <<"Panic">> /\ pc # "panicked"

\* C2: for any expression parse accepts, a whitespace run inserted at the
\* start, after a number, after a binary operator or after a parenthesis
\* leaves the lexem sequence exactly the same.
C2_WhitespaceAbsorbed ==
  pc = "postfix_repr" =>
    \A p \in 0..Len(input) : \A ws \in {<<" ">>, <<" ", " ">>} :
      WhitespaceLegalAfter(input, p) =>
        LET t == tokenize(Insert(input, p, ws))
        IN t[1] = "Ok" /\ parse(t[2]) = <<"Ok", lexems>>

\* C3: parse never returns Ok for a stream in which some prefix has more
\* close-parens than open-parens: in every Ok lexem sequence each ParClose
\* matches an earlier ParOpen and the totals are equal.
C3_DepthNeverNegative == pc = "postfix_repr" => Balanced(lexems)

\* C4: for every well-formed expression over integer operands, the five
\* operators and parentheses, eval returns the value of the reference
\* evaluator (priority Pow > Mul/Div > Add/Sub, equal priorities left to right).
C4_MatchesReference ==
  (Finished /\ Strip(input) = input /\ WellFormed(input)) =>
    result = <<"Ok", RefValue(parse(tokenize(input)[2])[2])>>

C4_Witness ==
  /\ pc = "returned"
  /\ input = <<"2", "*", "(", "3", "+", "2", ")">>
  /\ result = <<"Ok", <<10, 1>>>>

\* C5: a '+' or '-' token at the start or directly after an open paren and
\* immediately followed by a number is not emitted as an Operator lexem: the
\* lexems are those of the text without the sign, except that the one
\* Number it stands before carries the parsed value times the sign.
C5_LeadingSignFolded ==
  pc = "postfix_repr" =>
    \A p \in 1..(Len(input) - 1) :
      (/\ input[p] \in {"+", "-"}
       /\ (p = 1 \/ input[p - 1] = "(")
       /\ input[p + 1] \in NumberChars) =>
        LET unsigned == parse(tokenize(SubSeq(input, 1, p - 1)
                                       \o SubSeq(input, p + 1, Len(input)))[2])
            plain == unsigned[2]
        IN /\ unsigned[1] = "Ok"
           /\ Len(plain) = Len(lexems)
           /\ \E k \in 1..Len(lexems) :
                /\ plain[k][1] = "Number"
                /\ lexems[k] = <<"Number", IF input[p] = "-" THEN Negate(plain[k][2])
                                                           ELSE plain[k][2]>>
                /\ \A j \in 1..Len(lexems) : j # k => lexems[j] = plain[j]

C5_Witness ==
  /\ pc = "postfix_repr"
  /\ input = <<"-", "1", "-", "1">>
  /\ lexems = << <<"Number", <<-1, 1>>>>, <<"Operator", "Sub">>, <<"Number", <<1, 1>>>> >>

\* C6: for every well-formed expression e, the line e followed by a newline,
\* as the shell reads it and passes it to eval, gives the same Ok result as
\* eval(e).
C6_ShellToleratesTerminator ==
  (Finished /\ input = line \o <<"\n">> /\ WellFormed(line)) =>
    (result[1] = "Ok" /\ result = eval(line))

\* C7: if the input contains an unrecognized character, tokenize fails with
\* TokenizerError carrying the zero-based character index of the first such
\* character and that character, and no token sequence is returned.
C7_FirstInvalidReported ==
  LET bad == {i \in 1..Len(input) : ~Recognized(input[i])}
      first == CHOOSE i \in bad : \A j \in bad : i <= j
  IN (Finished /\ bad # {}) =>
       (result = <<"Err", <<"TokenizerError", first - 1, input[first]>>>> /\ tokens = <<>>)

\* C8: whenever tokenize and parse both succeed, the postfix sequence has no
\* paren marker and no operator lacks an operand: eval does not return
\* EvalError.
C8_EvalErrorUnreachable ==
  /\ pc = "eval_loop" =>
       \A i \in 1..Len(postfix) : postfix[i][1] \notin {"ParOpen", "ParClose"}
  /\ pc = "returned" => result # EvalError

\* C9: for any well-formed expression e, eval("(" + e + ")") has the same
\* outcome as eval(e).
C9_ParenTransparent ==
  (Finished /\ WellFormed(input)) =>
    SameOutcome(result, eval(<<"(">> \o input \o <<")">>))

\* C10: every operator, Pow included, is left-associative in postfix_repr:
\* an arriving operator first pops the stacked operators of greater or equal
\* priority, so a o1 b o2 c becomes a b o1 c o2 when o1 is at least as strong
\* as o2 (a b c o2 o1 otherwise), and 2**3**2 is (2**3)**2 = 64.
C10_LeftAssociative ==
  (pc = "returned" /\ Len(lexems) = 5
     /\ lexems[1][1] = "Number" /\ lexems[2][1] = "Operator" /\ lexems[3][1] = "Number"
     /\ lexems[4][1] = "Operator" /\ lexems[5][1] = "Number") =>
    LET a == lexems[1]
        o1 == lexems[2]
        b == lexems[3]
        o2 == lexems[4]
        c == lexems[5]
    IN /\ RefPriority(o1[2]) >= RefPriority(o2[2]) =>
            /\ postfix = <<a, b, o1, c, o2>>
            /\ result = <<"Ok", Apply(o2[2], Apply(o1[2], a[2], b[2]), c[2])>>
       /\ RefPriority(o1[2]) < RefPriority(o2[2]) => postfix = <<a, b, c, o2, o1>>
       /\ input = <<"2", "*", "*", "3", "*", "*", "2">> => result = <<"Ok", <<64, 1>>>>

C10_Witness ==
  /\ pc = "returned"
  /\ input = <<"2", "*", "*", "3", "*", "*", "2">>
  /\ postfix = << <<"Number", <<2, 1>>>>, <<"Number", <<3, 1>>>>, <<"Operator", "Pow">>,
                  <<"Number", <<2, 1>>>>, <<"Operator", "Pow">> >>
  /\ result = <<"Ok", <<64, 1>>>>

\* ------------------------------------------- vocabulary of the lexer claims
\* parse has run on `tokens`: it returned Ok (pc = "postfix_repr", its value
\* in lexems) or eval has returned, with parse's error if parse failed.
ParseDone == tokens # <<>> /\ pc \in {"postfix_repr", "returned"}

\* The five operator strings and the kinds they name.
KnownOperators ==
  {<< <<"+">>, "Add">>, << <<"-">>, "Sub">>, << <<"*">>, "Mul">>,
   << <<"/">>, "Div">>, << <<"*", "*">>, "Pow">>}

IsKnownOperator(text) == \E k \in KnownOperators : k[1] = text
KindOf(text) == (CHOOSE k \in KnownOperators : k[1] = text)[2]

\* The tokens before index i (1-based), closed by an End token.
ClosedPrefix(tks, i) == Append(SubSeq(tks, 1, i - 1), <<"End">>)

\* parse meets no error in the tokens before index i: the closed prefix is
\* accepted, or fails only at the end of the stream (open parentheses).
PrefixAccepted(tks, i) ==
  LET r == parse(ClosedPrefix(tks, i))
  IN r[1] = "Ok" \/ r = <<"Err", <<"LexerError", i>>>>

\* The indices of the operator runs that follow a number or a close paren.
BinaryRuns(tks) ==
  {i \in 2..Len(tks) : tks[i][1] = "Operator" /\ tks[i - 1][1] \in {"Number", "ParClose"}}

RECURSIVE ExpectedOperators(_, _)
\* The Operator lexems an accepted token stream gives, in order: the kind of
\* each run after a number or a close paren, a Mul for a sign before '(',
\* nothing for a sign before a number.
ExpectedOperators(tks, i) ==
  IF i > Len(tks) THEN <<>>
  ELSE IF tks[i][1] # "Operator" THEN ExpectedOperators(tks, i + 1)
  ELSE IF i \in BinaryRuns(tks)
       THEN <<KindOf(tks[i][2])>> \o ExpectedOperators(tks, i + 1)
  ELSE IF tks[i + 1] = <<"ParOpen">> THEN <<"Mul">> \o ExpectedOperators(tks, i + 1)
  ELSE ExpectedOperators(tks, i + 1)

IsOperatorLexem(lexem) == lexem[1] = "Operator"

RECURSIVE Kinds(_)
Kinds(lx) == IF lx = <<>> THEN <<>> ELSE <<Head(lx)[2]>> \o Kinds(Tail(lx))

ParseErrors == {"LexerError", "ParseNumberError", "ParseOperatorError"}

ParseOutcome ==
  IF pc = "returned" /\ result[1] = "Err" /\ result[2][1] \in ParseErrors
  THEN result[2]
  ELSE <<"Ok">>

\* The lexer's grammar as a table over token kinds: the state after `token`
\* arrives in state `kind`, or "Invalid" when it has no transition.  Blanks
\* are legal at the start, in a pending number, in a pending operator and
\* after a parenthesis; a sign must be directly followed by a number or '('.
RefTransition(kind, token) ==
  LET tk == token[1]
      sign == tk = "Operator" /\ token[2] \in {<<"+">>, <<"-">>}
  IN CASE kind = "Initial" ->
            (IF tk = "Whitespace" THEN "Initial" ELSE IF tk = "Number" THEN "Number"
             ELSE IF sign THEN "LeadingSign" ELSE IF tk = "ParOpen" THEN "ParOpen"
             ELSE "Invalid")
       [] kind = "LeadingSign" ->
            (IF tk = "Number" THEN "Number" ELSE IF tk = "ParOpen" THEN "ParOpen"
             ELSE "Invalid")
       [] kind = "Number" ->
            (IF tk = "Whitespace" THEN "Number" ELSE IF tk = "Operator" THEN "Operator"
             ELSE IF tk = "ParClose" THEN "ParClose" ELSE IF tk = "End" THEN "End"
             ELSE "Invalid")
       [] kind = "Operator" ->
            (IF tk = "Whitespace" THEN "Operator" ELSE IF tk = "Number" THEN "Number"
             ELSE IF tk = "ParOpen" THEN "ParOpen" ELSE "Invalid")
       [] kind = "ParOpen" ->
            (IF tk = "Whitespace" THEN "ParOpen" ELSE IF tk = "Number" THEN "Number"
             ELSE IF sign THEN "LeadingSign" ELSE IF tk = "ParOpen" THEN "ParOpen"
             ELSE "Invalid")
       [] kind = "ParClose" ->
            (IF tk = "Whitespace" THEN "ParClose" ELSE IF tk = "Operator" THEN "Operator"
             ELSE IF tk = "ParClose" THEN "ParClose" ELSE IF tk = "End" THEN "End"
             ELSE "Invalid")
       [] kind = "End" -> "Invalid"

RECURSIVE RefScan(_, _, _)
\* <<index of the first token without a transition, state before it>>, the
\* index being Len(tks) when every token has one.
RefScan(tks, i, kind) ==
  IF i >= Len(tks) THEN <<Len(tks), kind>>
  ELSE LET next == RefTransition(kind, tks[i + 1])
       IN IF next = "Invalid" THEN <<i, kind>> ELSE RefScan(tks, i + 1, next)

CountKind(tks, k) == Cardinality({i \in 1..Len(tks) : tks[i][1] = k})

\* What the grammar says of a token stream: Ok when every token has a
\* transition, the last state is End and the parentheses count out to zero;
\* otherwise LexerError at the first token without one, or at Len(tks).
RefOutcome(tks) ==
  LET r == RefScan(tks, 0, "Initial")
  IN IF r[1] < Len(tks) THEN <<"LexerError", r[1]>>
     ELSE IF r[2] # "End" \/ CountKind(tks, "ParOpen") # CountKind(tks, "ParClose")
          THEN <<"LexerError", Len(tks)>>
          ELSE <<"Ok">>

\* C12: parse returns Ok only when the state machine is in End after the
\* last token with depth zero; a token without a valid transition fails with
\* LexerError(its index), a failure found only after the last token with
\* LexerError(number of tokens).  (A pending number or operator run that does
\* not parse may fail first, with its own error.)
C12_LexerErrorPositions ==
  (ParseDone /\ ParseOutcome[1] \in {"Ok", "LexerError"}) =>
    ParseOutcome = RefOutcome(tokens)

\* --------------------------------------- vocabulary of the tokenizer claims
\* tokenize has returned Ok on `input`, its value in `tokens`.
TokenizeOk == pc = "parse"

\* The category of a recognized character.
Category(c) ==
  IF c \in NumberChars THEN "Number"
  ELSE IF c \in OperatorChars THEN "Operator"
  ELSE IF c = "(" THEN "ParOpen"
  ELSE IF c = ")" THEN "ParClose"
  ELSE "Whitespace"

RunKinds == {"Number", "Operator", "Whitespace"}

RECURSIVE RefRuns(_, _)
\* text cut into its maximal runs of number, operator and whitespace
\* characters, each parenthesis a token of its own; acc holds the tokens of
\* the characters already read.
RefRuns(text, acc) ==
  IF text = <<>> THEN acc
  ELSE LET c == Head(text)
           k == Category(c)
       IN IF k \notin RunKinds THEN RefRuns(Tail(text), Append(acc, <<k>>))
          ELSE IF acc # <<>> /\ acc[Len(acc)][1] = k
          THEN RefRuns(Tail(text),
                       [acc EXCEPT ![Len(acc)] = <<k, Append(acc[Len(acc)][2], c)>>])
          ELSE RefRuns(Tail(text), Append(acc, <<k, <<c>>>>))

\* The text a token stands for.
TokenText(token) ==
  CASE token[1] \in RunKinds -> token[2]
    [] token[1] = "ParOpen" -> <<"(">>
    [] token[1] = "ParClose" -> <<")">>
    [] token[1] = "End" -> <<>>

RECURSIVE Concat(_)
Concat(tks) == IF tks = <<>> THEN <<>> ELSE TokenText(Head(tks)) \o Concat(Tail(tks))

\* C13: every successful tokenize result holds exactly one End token, and it
\* is the last element; so for the empty input.
C13_OneEndLast ==
  TokenizeOk =>
    /\ tokens # <<>>
    /\ tokens[Len(tokens)] = <<"End">>
    /\ Cardinality({i \in 1..Len(tokens) : tokens[i] = <<"End">>}) = 1

C13_Witness ==
  /\ TokenizeOk
  /\ input = <<>>
  /\ tokens = << <<"End">> >>

\* C14: for every input made only of recognized characters, multi-byte
\* whitespace included, the tokens are the maximal same-category runs of the
\* input, each with exactly the text of its run, and the token texts
\* concatenated in order (parens as '(' and ')') give back the input.
C14_TextsAreRuns ==
  (TokenizeOk /\ \A i \in 1..Len(input) : Recognized(input[i])) =>
    /\ tokens = Append(RefRuns(input, <<>>), <<"End">>)
    /\ Concat(tokens) = input

\* C15: in every tokenize result no two adjacent tokens are both Number, both
\* Operator or both Whitespace, none of these has an empty text, and there
\* are as many ParOpen (ParClose) tokens as '(' (')') characters: every
\* parenthesis is a token of its own.
C15_MaximalRuns ==
  TokenizeOk =>
    /\ \A i \in 1..(Len(tokens) - 1) :
         tokens[i][1] \in RunKinds => tokens[i + 1][1] # tokens[i][1]
    /\ \A i \in 1..Len(tokens) : tokens[i][1] \in RunKinds => tokens[i][2] # <<>>
    /\ CountKind(tokens, "ParOpen") = CountOf(input, "(")
    /\ CountKind(tokens, "ParClose") = CountOf(input, ")")

C15_Witness ==
  /\ TokenizeOk
  /\ input = <<"(", "(", "1", "1">>
  /\ tokens = << <<"ParOpen">>, <<"ParOpen">>, <<"Number", <<"1", "1">>>>, <<"End">> >>

\* -------------------------------------------------- sign before parenthesis
\* '(' count minus ')' count in the first i characters of text.
ParenDepth(text, i) == CountOf(SubSeq(text, 1, i), "(") - CountOf(SubSeq(text, 1, i), ")")

\* text is one parenthesized group: its first '(' is closed by its last ')'.
OneGroup(text) ==
  /\ Len(text) >= 2
  /\ text[1] = "("
  /\ \A i \in 1..(Len(text) - 1) : ParenDepth(text, i) > 0
  /\ ParenDepth(text, Len(text)) = 0

SignValue(c) == IF c = "-" THEN <<-1, 1>> ELSE One

C17_LexemsWellFormed ==
  pc = "postfix_repr" =>
    /\ lexems # <<>>
    /\ \A i \in 1..Len(lexems) :
         lexems[i][1] = "Operator" =>
           /\ i > 1 /\ lexems[i - 1][1] \in {"Number", "ParClose"}
           /\ i < Len(lexems) /\ lexems[i + 1][1] \in {"Number", "ParOpen"}
    /\ \A i \in 1..(Len(lexems) - 1) :
         /\ ~(lexems[i][1] = "Number" /\ lexems[i + 1][1] = "Number")
         /\ ~(lexems[i][1] = "ParOpen" /\ lexems[i + 1][1] = "ParClose")
    /\ lexems[Len(lexems)][1] \in {"Number", "ParClose"}

C17_Witness ==
  /\ pc = "postfix_repr"
  /\ input = <<"(", "1", ")", "+", "1">>
  /\ lexems = << <<"ParOpen">>, <<"Number", One>>, <<"ParClose">>,
                 <<"Operator", "Add">>, <<"Number", One>> >>

\* ------------------------------------------ vocabulary of the stack claims
\* The operand stack once eval's loop has consumed `postfix`, or <<>> when
\* the loop fails.
FinalOperands(pf) ==
  LET r == EvalFrom(pf, 1, <<>>)
  IN IF r[1] = "Done" THEN r[2] ELSE <<>>

\* C19: whenever eval returns Ok, the operand stack holds exactly one value
\* once the whole postfix sequence is consumed, and that value is the one
\* returned: for no input text does the at-least-one check pass with
\* operands left over.
C19_OneValueLeft ==
  (pc = "returned" /\ result[1] = "Ok") =>
    /\ Len(FinalOperands(postfix)) = 1
    /\ result = <<"Ok", FinalOperands(postfix)[1]>>

C19_Witness ==
  /\ pc = "returned"
  /\ input = <<"1", "-", "(", "1", ")">>
  /\ FinalOperands(postfix) = <<PosZero>>
  /\ result = <<"Ok", PosZero>>

\* postfix_repr has run on `lexems`, its value in `postfix`.
PostfixDone == pc = "eval_loop"

IsNumberLexem(lexem) == lexem[1] = "Number"
IsParen(lexem) == lexem[1] \in {"ParOpen", "ParClose"}
Occurrences(seq, x) == Cardinality({i \in 1..Len(seq) : seq[i] = x})

\* C18: for every lexem sequence with balanced parentheses, the output of
\* postfix_repr has no ParOpen and no ParClose, has each Number and each
\* Operator lexem as many times as the input has it, and has the Numbers in
\* their input order.
C18_PostfixPreserves ==
  (PostfixDone /\ Balanced(lexems)) =>
    /\ \A i \in 1..Len(postfix) : ~IsParen(postfix[i])
    /\ \A x \in LexemAlphabet \cup {lexems[i] : i \in 1..Len(lexems)} :
         ~IsParen(x) => Occurrences(postfix, x) = Occurrences(lexems, x)
    /\ Len(postfix) = Len(lexems) - CountKind(lexems, "ParOpen") - CountKind(lexems, "ParClose")
    /\ SelectSeq(postfix, IsNumberLexem) = SelectSeq(lexems, IsNumberLexem)

C18_Witness ==
  /\ PostfixDone
  /\ lexems = << <<"Number", <<2, 1>>>>, <<"Operator", "Mul">>, <<"ParOpen">>,
                 <<"Number", <<3, 1>>>>, <<"ParClose">> >>
  /\ postfix = << <<"Number", <<2, 1>>>>, <<"Number", <<3, 1>>>>, <<"Operator", "Mul">> >>

RECURSIVE StackAfter(_, _)
\* The stack of postfix_repr after the first i lexems of infix.
StackAfter(infix, i) ==
  IF i = 0 THEN <<>>
  ELSE PostfixStep(<<>>, StackAfter(infix, i - 1), infix[i])[2]

\* The part of the stack above its topmost ParOpen (all of it without one).
TopLevel(stack) ==
  LET opens == {j \in 1..Len(stack) : stack[j] = <<"ParOpen">>}
      top == IF opens = {} THEN 0 ELSE CHOOSE j \in opens : \A k \in opens : k <= j
  IN SubSeq(stack, top + 1, Len(stack))

\* C20: at every step of postfix_repr the operators above the topmost
\* ParOpen of the stack (above its bottom when there is none) have strictly
\* increasing priorities from bottom to top; so there are at most three.
C20_StackIncreasing ==
  PostfixDone =>
    \A i \in 0..Len(lexems) :
      LET level == TopLevel(StackAfter(lexems, i))
      IN /\ \A j \in 1..Len(level) : level[j][1] = "Operator"
         /\ \A j \in 1..(Len(level) - 1) : priority(level[j][2]) < priority(level[j + 1][2])
         /\ Len(level) <= 3

C20_Witness ==
  /\ PostfixDone
  /\ lexems = << <<"Number", <<2, 1>>>>, <<"Operator", "Add">>, <<"Number", <<3, 1>>>>,
                 <<"Operator", "Mul">>, <<"Number", <<2, 1>>>> >>
  /\ StackAfter(lexems, 4) = << <<"Operator", "Add">>, <<"Operator", "Mul">> >>

====
